---- MODULE Spec2Model ----
(***************************************************************************)
(* The USDFG challenge escrow program                                      *)
(* (programs/usdfg_smart_contract/src/lib.rs) as a state machine.          *)
(*                                                                         *)
(* One step of the model is one transaction: the runtime validates the     *)
(* accounts named by the instruction against the #[derive(Accounts)]       *)
(* constraints, runs the handler on a working copy of the accounts, and    *)
(* commits the working copy when the handler returns Ok and discards it    *)
(* otherwise.  Token movements are cross-program invocations of the token  *)
(* program's Transfer, which is accepted only when the authority named in  *)
(* the transfer owns the source token account and signs: as a signer of    *)
(* the transaction, or as the program-derived address of the signer seeds  *)
(* the calling program passes.                                             *)
(*                                                                         *)
(* Besides the program's own instructions the model has the clock, and     *)
(* the one token-program transfer the program cannot prevent and that      *)
(* debits a vault: a transfer signed directly by the key that is the       *)
(* vault's authority.                                                      *)
(***************************************************************************)
EXTENDS Integers, FiniteSets, Sequences, TLC

(* ------------------------------ bounds -------------------------------- *)
\* number of wallets (human-held keys)
NumUsers == 3
\* the clock runs over the instants just before and at each multiple of the
\* dispute window, up to MaxEpoch windows
MaxEpoch == 1
\* tokens every wallet but the last starts with
InitialBalance == 1000

(* -------------------------- program constants ------------------------- *)
MIN_ENTRY_FEE_USDFG == 1
MAX_ENTRY_FEE_USDFG == 1000
\* let dispute_timer = now + 900
DISPUTE_WINDOW == 900
ESCROW_WALLET_SEED == "escrow_wallet"

(* ----------------------------- identities ----------------------------- *)
Users == 1..NumUsers
\* the challenge address the model follows: the address of seeds ["challenge",
\* creator, challenge_seed] for whichever creator and seed create it
ChallengeIds == {1}

\* a wallet's public key: the holder of the key can sign a transaction
KeyOf(u) == <<"key", u>>
UserKeys == {KeyOf(u) : u \in Users}
\* Pubkey::default(), the value of a zero-initialised Pubkey field
DefaultPubkey == <<"default">>
\* the address of the token mint
MintKey == <<"mint">>
\* the address of challenge account c
ChallengeKey(c) == <<"challenge", c>>
\* Pubkey::find_program_address(seeds, program_id): an address no key signs
\* for; the program signs for it by passing the same seeds to invoke_signed
find_program_address(seeds) == <<"pda", seeds>>
\* seeds = [ESCROW_WALLET_SEED]
EscrowWalletPda == find_program_address(<<ESCROW_WALLET_SEED>>)
\* seeds = [ESCROW_WALLET_SEED, challenge.key(), mint.key()]
EscrowSeeds(c) == <<ESCROW_WALLET_SEED, ChallengeKey(c), MintKey>>
EscrowTokenAddress(c) == find_program_address(EscrowSeeds(c))
\* the token account of wallet u
UserTokenAddress(u) == <<"token", u>>
\* the token account a signer names as its own: the Accounts structs require
\* creator_token_account.owner == creator.key() (and likewise the challenger's)
TokenAccountOf(key) == UserTokenAddress(key[2])
UserTokenAddresses == {UserTokenAddress(u) : u \in Users}
\* the escrow token account of a challenge at another address than the one
\* the model follows
OtherChallengeVault == EscrowTokenAddress(2)
TokenAddresses ==
    UserTokenAddresses \cup {EscrowTokenAddress(c) : c \in ChallengeIds}
        \cup {OtherChallengeVault}

\* Option<T>: None is the empty set, Some(x) the singleton
None == {}
Some(x) == {x}

\* the instants the clock takes
ClockValues ==
    {e * DISPUTE_WINDOW - d : e \in 0..MaxEpoch, d \in {0, 1}} \cap Nat
\* the amounts a caller asks for: the fee bounds and their neighbours
Amounts ==
    {MIN_ENTRY_FEE_USDFG - 1, MIN_ENTRY_FEE_USDFG,
     MAX_ENTRY_FEE_USDFG, MAX_ENTRY_FEE_USDFG + 1}

(* ------------------------------- state -------------------------------- *)
VARIABLES
    admin_state,     \* the AdminState account
    challenge,       \* challenge address -> Challenge account, or NoAccount
    token_accounts,  \* token account address -> [owner, amount], or NoAccount
    now,             \* Clock::get()?.unix_timestamp
    result           \* what the instruction of the last step did

vars == <<admin_state, challenge, token_accounts, now, result>>

\* an address that holds no account yet
NoAccount == [exists |-> FALSE]

\* the value of result after a step that is no instruction of the program
NoInstruction ==
    [op |-> "none", err |-> "none", challenge |-> 0, signer |-> DefaultPubkey,
     arg |-> <<>>, event |-> None, cpi |-> None]

\* the accounts a transaction works on
Accounts ==
    [admin_state |-> admin_state, challenge |-> challenge, token |-> token_accounts]

(* ------------------- the token program's Transfer ---------------------- *)
\* a cross-program invocation may name as signer an account that signed the
\* transaction or the program-derived address of one of the signer seeds
\* passed to invoke_signed (CpiContext::new passes none)
CpiSigners(tx_signers, signer_seeds) ==
    tx_signers \cup {find_program_address(s) : s \in signer_seeds}

\* the request a handler builds: Transfer {from, to, authority}, the amount and
\* the signer seeds of the CpiContext
Cpi(from, to, authority, amount, signer_seeds) ==
    [from |-> from, to |-> to, authority |-> authority, amount |-> amount,
     signer_seeds |-> signer_seeds]

\* token::transfer(cpi_ctx, amount): the error it returns, "Ok" when accepted
token_transfer_err(tok, cpi, tx_signers) ==
    IF cpi.authority \notin CpiSigners(tx_signers, cpi.signer_seeds)
    THEN "PrivilegeEscalation"
    ELSE IF ~tok[cpi.from].exists \/ ~tok[cpi.to].exists
    THEN "UninitializedAccount"
    ELSE IF tok[cpi.from].amount < cpi.amount
    THEN "TokenInsufficientFunds"
    ELSE IF tok[cpi.from].owner # cpi.authority
    THEN "OwnerMismatch"
    ELSE "Ok"

\* the token accounts after an accepted transfer
token_transfer(tok, cpi) ==
    LET debited == [tok EXCEPT ![cpi.from].amount = @ - cpi.amount]
    IN  [debited EXCEPT ![cpi.to].amount = @ + cpi.amount]

(* ----------------------------- the runtime ----------------------------- *)
\* what a handler hands back: its Result, the working copy of the accounts as
\* it left them, the event it emitted and the transfer it requested
Return(err, acc, event, cpi) ==
    [err |-> err, acc |-> acc, event |-> event, cpi |-> cpi]

\* a runtime that kept the working copy of a failed instruction
CommitAlways(acc, out) == out.acc

\* a transaction commits the working copy only when the instruction returns Ok
Commit(acc, out) == IF out.err = "Ok" THEN out.acc ELSE acc

\* one transaction: instruction op on challenge address c, submitted by signer.
\* Transactions run one at a time: the next one is dispatched once the outcome
\* of the last one has been reported
Execute(op, c, signer, arg, out) ==
    LET committed == Commit(Accounts, out)
    IN  /\ result = NoInstruction
        /\ admin_state' = committed.admin_state
        /\ challenge' = committed.challenge
        /\ token_accounts' = committed.token
        /\ result' = [op |-> op, err |-> out.err, challenge |-> c,
                      signer |-> signer, arg |-> arg,
                      event |-> out.event,
                      cpi |-> out.cpi]
        /\ UNCHANGED now

(* -------------------------- admin instructions ------------------------- *)
\* pub fn initialize(ctx: Context<Initialize>, admin: Pubkey); #[derive(Accounts)]
\* Initialize creates the AdminState at seeds ["admin"] (init), which fails when
\* the account is already there
initialize(acc, admin, t) ==
    IF acc.admin_state.exists
    THEN Return("AccountAlreadyInUse", acc, None, None)
    ELSE Return("Ok",
                [acc EXCEPT !.admin_state =
                    [exists |-> TRUE, admin |-> admin, is_active |-> TRUE,
                     created_at |-> t, last_updated |-> t]],
                Some([name |-> "AdminInitialized", admin |-> admin, timestamp |-> t]),
                None)

\* update_admin without its is_active check
update_admin_no_active(acc, current_admin, new_admin, t) ==
    LET st == acc.admin_state
    IN  IF st.admin # current_admin
        THEN Return("Unauthorized", acc, None, None)
        ELSE Return("Ok",
                    [acc EXCEPT !.admin_state.admin = new_admin,
                                !.admin_state.last_updated = t],
                    Some([name |-> "AdminUpdated", old_admin |-> st.admin,
                          new_admin |-> new_admin, timestamp |-> t]),
                    None)

\* pub fn update_admin(ctx: Context<UpdateAdmin>, new_admin: Pubkey)
update_admin(acc, current_admin, new_admin, t) ==
    LET st == acc.admin_state
    IN  IF st.admin # current_admin
        THEN Return("Unauthorized", acc, None, None)
        ELSE IF ~st.is_active
        THEN Return("AdminInactive", acc, None, None)
        ELSE Return("Ok",
                    [acc EXCEPT !.admin_state.admin = new_admin,
                                !.admin_state.last_updated = t],
                    Some([name |-> "AdminUpdated", old_admin |-> st.admin,
                          new_admin |-> new_admin, timestamp |-> t]),
                    None)

\* pub fn revoke_admin(ctx: Context<RevokeAdmin>)
revoke_admin(acc, current_admin, t) ==
    LET st == acc.admin_state
    IN  IF st.admin # current_admin
        THEN Return("Unauthorized", acc, None, None)
        ELSE IF ~st.is_active
        THEN Return("AdminInactive", acc, None, None)
        ELSE Return("Ok",
                    [acc EXCEPT !.admin_state.is_active = FALSE,
                                !.admin_state.last_updated = t],
                    Some([name |-> "AdminRevoked", admin |-> st.admin,
                          timestamp |-> t]),
                    None)

(* ------------------------------- create -------------------------------- *)
\* a Challenge account as `init` leaves it: allocated and zeroed
ZeroedChallenge ==
    [exists |-> TRUE, creator |-> DefaultPubkey, challenger |-> None,
     entry_fee |-> 0, status |-> "Open", dispute_timer |-> 0, winner |-> None,
     created_at |-> 0, last_updated |-> 0, processing |-> FALSE]

\* #[derive(Accounts)] CreateChallenge: the challenge is created (init), and the
\* escrow token account is created at its seeds with the authority the caller
\* names as escrow_wallet (init_if_needed), or checked against it
CreateChallengeAccounts(acc, c, escrow_wallet) ==
    LET vault == EscrowTokenAddress(c)
    IN  IF acc.challenge[c].exists
        THEN Return("AccountAlreadyInUse", acc, None, None)
        ELSE IF acc.token[vault].exists /\ acc.token[vault].owner # escrow_wallet
        THEN Return("ConstraintTokenOwner", acc, None, None)
        ELSE Return("Ok",
                    [acc EXCEPT
                        !.challenge[c] = ZeroedChallenge,
                        !.token[vault] =
                            IF acc.token[vault].exists THEN @
                            ELSE [exists |-> TRUE, owner |-> escrow_wallet,
                                  amount |-> 0]],
                    None, None)

\* create_challenge without its minimum check
create_challenge_no_min(acc0, c, creator, escrow_wallet, usdfg_amount, t) ==
    LET checked == CreateChallengeAccounts(acc0, c, escrow_wallet)
        acc == checked.acc
        dispute_timer == t + DISPUTE_WINDOW
        cpi == Cpi(TokenAccountOf(creator), EscrowTokenAddress(c), creator,
                   usdfg_amount, {})
        paid == token_transfer_err(acc.token, cpi, {creator})
    IN  IF checked.err # "Ok" THEN checked
        ELSE IF ~(usdfg_amount <= MAX_ENTRY_FEE_USDFG)
        THEN Return("EntryFeeTooHigh", acc, None, None)
        ELSE IF paid # "Ok"
        THEN Return(paid, acc, None, Some(cpi))
        ELSE Return("Ok",
                    [acc EXCEPT
                        !.token = token_transfer(acc.token, cpi),
                        !.challenge[c] =
                            [@ EXCEPT !.creator = creator,
                                      !.challenger = None,
                                      !.entry_fee = usdfg_amount,
                                      !.status = "Open",
                                      !.created_at = t,
                                      !.last_updated = t,
                                      !.processing = FALSE,
                                      !.dispute_timer = dispute_timer]],
                    Some([name |-> "ChallengeCreated", creator |-> creator,
                          amount |-> usdfg_amount, timestamp |-> t]),
                    Some(cpi))

\* pub fn create_challenge(ctx: Context<CreateChallenge>, usdfg_amount: u64)
create_challenge(acc0, c, creator, escrow_wallet, usdfg_amount, t) ==
    LET checked == CreateChallengeAccounts(acc0, c, escrow_wallet)
        acc == checked.acc
        dispute_timer == t + DISPUTE_WINDOW
        cpi == Cpi(TokenAccountOf(creator), EscrowTokenAddress(c), creator,
                   usdfg_amount, {})
        paid == token_transfer_err(acc.token, cpi, {creator})
    IN  IF checked.err # "Ok" THEN checked
        ELSE IF ~(usdfg_amount >= MIN_ENTRY_FEE_USDFG)
        THEN Return("EntryFeeTooLow", acc, None, None)
        ELSE IF ~(usdfg_amount <= MAX_ENTRY_FEE_USDFG)
        THEN Return("EntryFeeTooHigh", acc, None, None)
        ELSE IF paid # "Ok"
        THEN Return(paid, acc, None, Some(cpi))
        ELSE Return("Ok",
                    [acc EXCEPT
                        !.token = token_transfer(acc.token, cpi),
                        !.challenge[c] =
                            [@ EXCEPT !.creator = creator,
                                      !.challenger = None,
                                      !.entry_fee = usdfg_amount,
                                      !.status = "Open",
                                      !.created_at = t,
                                      !.last_updated = t,
                                      !.processing = FALSE,
                                      !.dispute_timer = dispute_timer]],
                    Some([name |-> "ChallengeCreated", creator |-> creator,
                          amount |-> usdfg_amount, timestamp |-> t]),
                    Some(cpi))

(* ------------------------------- accept -------------------------------- *)
\* #[derive(Accounts)] AcceptChallenge, ResolveChallenge: the challenge exists;
\* escrow_token_account is the token account at the challenge's seeds, and its
\* authority is escrow_wallet, the address of seeds [ESCROW_WALLET_SEED]
EscrowAccountsErr(acc, c) ==
    IF ~acc.challenge[c].exists THEN "AccountNotInitialized"
    ELSE IF ~acc.token[EscrowTokenAddress(c)].exists THEN "AccountNotInitialized"
    ELSE IF acc.token[EscrowTokenAddress(c)].owner # EscrowWalletPda
    THEN "ConstraintTokenOwner"
    ELSE "Ok"

\* accept_challenge without its expiry check
accept_challenge_checks_no_expiry(acc, ch, challenger, t) ==
    IF ~acc.admin_state.is_active THEN "AdminInactive"
    ELSE IF ~(ch.status = "Open") THEN "NotOpen"
    ELSE IF ~(ch.creator # challenger) THEN "SelfChallenge"
    ELSE IF ~(acc.token[TokenAccountOf(challenger)].amount >= ch.entry_fee)
    THEN "InsufficientFunds"
    ELSE "Ok"

\* accept_challenge without its self-challenge check
accept_challenge_checks_no_self(acc, ch, challenger, t) ==
    IF ~acc.admin_state.is_active THEN "AdminInactive"
    ELSE IF ~(ch.status = "Open") THEN "NotOpen"
    ELSE IF ~(acc.token[TokenAccountOf(challenger)].amount >= ch.entry_fee)
    THEN "InsufficientFunds"
    ELSE IF ~(t < ch.dispute_timer) THEN "ChallengeExpired"
    ELSE "Ok"

\* the require! checks of accept_challenge, in order
accept_challenge_checks(acc, ch, challenger, t) ==
    IF ~acc.admin_state.is_active THEN "AdminInactive"
    ELSE IF ~(ch.status = "Open") THEN "NotOpen"
    ELSE IF ~(ch.creator # challenger) THEN "SelfChallenge"
    ELSE IF ~(acc.token[TokenAccountOf(challenger)].amount >= ch.entry_fee)
    THEN "InsufficientFunds"
    ELSE IF ~(t < ch.dispute_timer) THEN "ChallengeExpired"
    ELSE "Ok"

\* accept_challenge that moves twice the entry fee
accept_challenge_stakes_twice(acc, c, challenger, t) ==
    LET ch == acc.challenge[c]
        checks == accept_challenge_checks(acc, ch, challenger, t)
        accepted == [acc EXCEPT !.challenge[c].challenger = Some(challenger),
                                !.challenge[c].status = "InProgress",
                                !.challenge[c].last_updated = t]
        cpi == Cpi(TokenAccountOf(challenger), EscrowTokenAddress(c), challenger,
                   ch.entry_fee * 2, {})
        paid == token_transfer_err(accepted.token, cpi, {challenger})
    IN  IF EscrowAccountsErr(acc, c) # "Ok"
        THEN Return(EscrowAccountsErr(acc, c), acc, None, None)
        ELSE IF checks # "Ok"
        THEN Return(checks, acc, None, None)
        ELSE IF paid # "Ok"
        THEN Return(paid, accepted, None, Some(cpi))
        ELSE Return("Ok",
                    [accepted EXCEPT !.token = token_transfer(accepted.token, cpi)],
                    Some([name |-> "ChallengeAccepted", challenge |-> ChallengeKey(c),
                          challenger |-> challenger, timestamp |-> t]),
                    Some(cpi))

\* accept_challenge that restarts the dispute timer
accept_challenge_restarts_timer(acc, c, challenger, t) ==
    LET ch == acc.challenge[c]
        checks == accept_challenge_checks(acc, ch, challenger, t)
        accepted == [acc EXCEPT !.challenge[c].challenger = Some(challenger),
                                !.challenge[c].status = "InProgress",
                                !.challenge[c].dispute_timer = t + DISPUTE_WINDOW,
                                !.challenge[c].last_updated = t]
        cpi == Cpi(TokenAccountOf(challenger), EscrowTokenAddress(c), challenger,
                   ch.entry_fee, {})
        paid == token_transfer_err(accepted.token, cpi, {challenger})
    IN  IF EscrowAccountsErr(acc, c) # "Ok"
        THEN Return(EscrowAccountsErr(acc, c), acc, None, None)
        ELSE IF checks # "Ok"
        THEN Return(checks, acc, None, None)
        ELSE IF paid # "Ok"
        THEN Return(paid, accepted, None, Some(cpi))
        ELSE Return("Ok",
                    [accepted EXCEPT !.token = token_transfer(accepted.token, cpi)],
                    Some([name |-> "ChallengeAccepted", challenge |-> ChallengeKey(c),
                          challenger |-> challenger, timestamp |-> t]),
                    Some(cpi))

\* pub fn accept_challenge(ctx: Context<AcceptChallenge>)
accept_challenge(acc, c, challenger, t) ==
    LET ch == acc.challenge[c]
        checks == accept_challenge_checks(acc, ch, challenger, t)
        accepted == [acc EXCEPT !.challenge[c].challenger = Some(challenger),
                                !.challenge[c].status = "InProgress",
                                !.challenge[c].last_updated = t]
        cpi == Cpi(TokenAccountOf(challenger), EscrowTokenAddress(c), challenger,
                   ch.entry_fee, {})
        paid == token_transfer_err(accepted.token, cpi, {challenger})
    IN  IF EscrowAccountsErr(acc, c) # "Ok"
        THEN Return(EscrowAccountsErr(acc, c), acc, None, None)
        ELSE IF checks # "Ok"
        THEN Return(checks, acc, None, None)
        ELSE IF paid # "Ok"
        THEN Return(paid, accepted, None, Some(cpi))
        ELSE Return("Ok",
                    [accepted EXCEPT !.token = token_transfer(accepted.token, cpi)],
                    Some([name |-> "ChallengeAccepted", challenge |-> ChallengeKey(c),
                          challenger |-> challenger, timestamp |-> t]),
                    Some(cpi))

(* ------------------------------- resolve ------------------------------- *)
\* resolve_challenge without its status check
resolve_challenge_checks_no_status(acc, ch, winner, t) ==
    IF ~acc.admin_state.is_active THEN "AdminInactive"
    ELSE IF winner # ch.creator /\ ch.challenger = None THEN "Panic"
    ELSE IF ~(winner = ch.creator \/ Some(winner) = ch.challenger)
    THEN "InvalidWinner"
    ELSE IF ~(t < ch.dispute_timer) THEN "ChallengeExpired"
    ELSE "Ok"

\* resolve_challenge without its winner check
resolve_challenge_checks_no_winner(acc, ch, winner, t) ==
    IF ~acc.admin_state.is_active THEN "AdminInactive"
    ELSE IF ~(ch.status = "InProgress") THEN "NotInProgress"
    ELSE IF ~(t < ch.dispute_timer) THEN "ChallengeExpired"
    ELSE "Ok"

\* resolve_challenge without its expiry check
resolve_challenge_checks_no_expiry(acc, ch, winner, t) ==
    IF ~acc.admin_state.is_active THEN "AdminInactive"
    ELSE IF ~(ch.status = "InProgress") THEN "NotInProgress"
    ELSE IF winner # ch.creator /\ ch.challenger = None THEN "Panic"
    ELSE IF ~(winner = ch.creator \/ Some(winner) = ch.challenger)
    THEN "InvalidWinner"
    ELSE "Ok"

\* the require! checks of resolve_challenge after the reentrancy guard, in
\* order; challenger.unwrap() panics on None when the || reaches it
resolve_challenge_checks(acc, ch, winner, t) ==
    IF ~acc.admin_state.is_active THEN "AdminInactive"
    ELSE IF ~(ch.status = "InProgress") THEN "NotInProgress"
    ELSE IF winner # ch.creator /\ ch.challenger = None THEN "Panic"
    ELSE IF ~(winner = ch.creator \/ Some(winner) = ch.challenger)
    THEN "InvalidWinner"
    ELSE IF ~(t < ch.dispute_timer) THEN "ChallengeExpired"
    ELSE "Ok"

\* the payout resolve_challenge asks the token program for: the escrow token
\* account to winner_token_account, authority escrow_wallet, signed with the
\* seeds of the escrow token account
resolve_challenge_cpi(c, ch, winner_token_account) ==
    Cpi(EscrowTokenAddress(c), winner_token_account, EscrowWalletPda,
        ch.entry_fee * 2, {EscrowSeeds(c)})

\* resolve_challenge that lets only the recorded admin submit
resolve_challenge_admin_only(acc, c, payer, winner, winner_token_account, t) ==
    LET ch == acc.challenge[c]
        entered == [acc EXCEPT !.challenge[c].processing = TRUE]
        checks == resolve_challenge_checks(entered, ch, winner, t)
        resolved == [entered EXCEPT !.challenge[c].status = "Completed",
                                    !.challenge[c].winner = Some(winner),
                                    !.challenge[c].last_updated = t]
        cpi == resolve_challenge_cpi(c, ch, winner_token_account)
        paid == token_transfer_err(resolved.token, cpi, {payer})
    IN  IF EscrowAccountsErr(acc, c) # "Ok"
        THEN Return(EscrowAccountsErr(acc, c), acc, None, None)
        ELSE IF ~(~ch.processing)
        THEN Return("ReentrancyDetected", acc, None, None)
        ELSE IF ~(acc.admin_state.admin = payer)
        THEN Return("Unauthorized", entered, None, None)
        ELSE IF checks # "Ok"
        THEN Return(checks, entered, None, None)
        ELSE IF paid # "Ok"
        THEN Return(paid, resolved, None, Some(cpi))
        ELSE Return("Ok",
                    [resolved EXCEPT !.token = token_transfer(resolved.token, cpi),
                                     !.challenge[c].processing = FALSE],
                    Some([name |-> "PayoutCompleted", challenge |-> ChallengeKey(c),
                          winner |-> winner, amount |-> ch.entry_fee * 2,
                          timestamp |-> t]),
                    Some(cpi))

\* pub fn resolve_challenge(ctx: Context<ResolveChallenge>, winner: Pubkey)
\* payer signed the transaction; winner_token_account is any token account of
\* the mint
resolve_challenge(acc, c, payer, winner, winner_token_account, t) ==
    LET ch == acc.challenge[c]
        entered == [acc EXCEPT !.challenge[c].processing = TRUE]
        checks == resolve_challenge_checks(entered, ch, winner, t)
        resolved == [entered EXCEPT !.challenge[c].status = "Completed",
                                    !.challenge[c].winner = Some(winner),
                                    !.challenge[c].last_updated = t]
        cpi == resolve_challenge_cpi(c, ch, winner_token_account)
        paid == token_transfer_err(resolved.token, cpi, {payer})
    IN  IF EscrowAccountsErr(acc, c) # "Ok"
        THEN Return(EscrowAccountsErr(acc, c), acc, None, None)
        ELSE IF ~(~ch.processing)
        THEN Return("ReentrancyDetected", acc, None, None)
        ELSE IF checks # "Ok"
        THEN Return(checks, entered, None, None)
        ELSE IF paid # "Ok"
        THEN Return(paid, resolved, None, Some(cpi))
        ELSE Return("Ok",
                    [resolved EXCEPT !.token = token_transfer(resolved.token, cpi),
                                     !.challenge[c].processing = FALSE],
                    Some([name |-> "PayoutCompleted", challenge |-> ChallengeKey(c),
                          winner |-> winner, amount |-> ch.entry_fee * 2,
                          timestamp |-> t]),
                    Some(cpi))

(* ------------------------- cancel, claim_refund ------------------------ *)
\* #[derive(Accounts)] CancelChallenge: the challenge exists; escrow_token_account
\* is any token account whose authority is escrow_wallet, the address of seeds
\* [ESCROW_WALLET_SEED]
CancelAccountsErr(acc, c, escrow_token_account) ==
    IF ~acc.challenge[c].exists THEN "AccountNotInitialized"
    ELSE IF ~acc.token[escrow_token_account].exists THEN "AccountNotInitialized"
    ELSE IF ~(acc.token[escrow_token_account].owner = EscrowWalletPda)
    THEN "ConstraintRaw"
    ELSE "Ok"

\* the require! checks of cancel_challenge after the reentrancy guard, in order
cancel_challenge_checks(acc, ch, creator, t) ==
    IF ~acc.admin_state.is_active THEN "AdminInactive"
    ELSE IF ~(ch.status = "Open") THEN "NotOpen"
    ELSE IF ~(creator = ch.creator) THEN "Unauthorized"
    ELSE IF ~(t < ch.dispute_timer) THEN "ChallengeExpired"
    ELSE "Ok"

\* the refund cancel_challenge and claim_refund ask the token program for: the
\* escrow token account named to the creator's, authority escrow_wallet, with no
\* signer seeds (CpiContext::new)
refund_cpi(ch, creator, escrow_token_account) ==
    Cpi(escrow_token_account, TokenAccountOf(creator), EscrowWalletPda,
        ch.entry_fee, {})

\* cancel_challenge that sets processing only after the transfer
cancel_challenge_late_flag(acc, c, creator, escrow_token_account, t) ==
    LET ch == acc.challenge[c]
        checks == cancel_challenge_checks(acc, ch, creator, t)
        cancelled == [acc EXCEPT !.challenge[c].status = "Cancelled",
                                 !.challenge[c].last_updated = t]
        cpi == refund_cpi(ch, creator, escrow_token_account)
        paid == token_transfer_err(cancelled.token, cpi, {creator})
    IN  IF CancelAccountsErr(acc, c, escrow_token_account) # "Ok"
        THEN Return(CancelAccountsErr(acc, c, escrow_token_account), acc, None, None)
        ELSE IF ~(~ch.processing)
        THEN Return("ReentrancyDetected", acc, None, None)
        ELSE IF checks # "Ok"
        THEN Return(checks, acc, None, None)
        ELSE IF paid # "Ok"
        THEN Return(paid, cancelled, None, Some(cpi))
        ELSE Return("Ok",
                    [cancelled EXCEPT !.token = token_transfer(cancelled.token, cpi),
                                      !.challenge[c].processing = FALSE],
                    Some([name |-> "RefundIssued", challenge |-> ChallengeKey(c),
                          recipient |-> ch.creator, amount |-> ch.entry_fee,
                          timestamp |-> t]),
                    Some(cpi))

\* pub fn cancel_challenge(ctx: Context<CancelChallenge>)
cancel_challenge(acc, c, creator, escrow_token_account, t) ==
    LET ch == acc.challenge[c]
        entered == [acc EXCEPT !.challenge[c].processing = TRUE]
        checks == cancel_challenge_checks(entered, ch, creator, t)
        cancelled == [entered EXCEPT !.challenge[c].status = "Cancelled",
                                     !.challenge[c].last_updated = t]
        cpi == refund_cpi(ch, creator, escrow_token_account)
        paid == token_transfer_err(cancelled.token, cpi, {creator})
    IN  IF CancelAccountsErr(acc, c, escrow_token_account) # "Ok"
        THEN Return(CancelAccountsErr(acc, c, escrow_token_account), acc, None, None)
        ELSE IF ~(~ch.processing)
        THEN Return("ReentrancyDetected", acc, None, None)
        ELSE IF checks # "Ok"
        THEN Return(checks, entered, None, None)
        ELSE IF paid # "Ok"
        THEN Return(paid, cancelled, None, Some(cpi))
        ELSE Return("Ok",
                    [cancelled EXCEPT !.token = token_transfer(cancelled.token, cpi),
                                      !.challenge[c].processing = FALSE],
                    Some([name |-> "RefundIssued", challenge |-> ChallengeKey(c),
                          recipient |-> ch.creator, amount |-> ch.entry_fee,
                          timestamp |-> t]),
                    Some(cpi))

\* claim_refund without its status check
claim_refund_checks_no_status(ch, creator, t) ==
    IF ~(creator = ch.creator) THEN "Unauthorized"
    ELSE IF ~(t >= ch.dispute_timer) THEN "ChallengeNotExpired"
    ELSE IF ~(ch.challenger = None) THEN "AlreadyAccepted"
    ELSE "Ok"

\* the require! checks of claim_refund after the reentrancy guard, in order
claim_refund_checks(ch, creator, t) ==
    IF ~(creator = ch.creator) THEN "Unauthorized"
    ELSE IF ~(ch.status = "Open") THEN "NotOpen"
    ELSE IF ~(t >= ch.dispute_timer) THEN "ChallengeNotExpired"
    ELSE IF ~(ch.challenger = None) THEN "AlreadyAccepted"
    ELSE "Ok"

\* pub fn claim_refund(ctx: Context<CancelChallenge>)
claim_refund(acc, c, creator, escrow_token_account, t) ==
    LET ch == acc.challenge[c]
        entered == [acc EXCEPT !.challenge[c].processing = TRUE]
        checks == claim_refund_checks(ch, creator, t)
        cancelled == [entered EXCEPT !.challenge[c].status = "Cancelled",
                                     !.challenge[c].last_updated = t]
        cpi == refund_cpi(ch, creator, escrow_token_account)
        paid == token_transfer_err(cancelled.token, cpi, {creator})
    IN  IF CancelAccountsErr(acc, c, escrow_token_account) # "Ok"
        THEN Return(CancelAccountsErr(acc, c, escrow_token_account), acc, None, None)
        ELSE IF ~(~ch.processing)
        THEN Return("ReentrancyDetected", acc, None, None)
        ELSE IF checks # "Ok"
        THEN Return(checks, entered, None, None)
        ELSE IF paid # "Ok"
        THEN Return(paid, cancelled, None, Some(cpi))
        ELSE Return("Ok",
                    [cancelled EXCEPT !.token = token_transfer(cancelled.token, cpi),
                                      !.challenge[c].processing = FALSE],
                    Some([name |-> "RefundIssued", challenge |-> ChallengeKey(c),
                          recipient |-> ch.creator, amount |-> ch.entry_fee,
                          timestamp |-> t]),
                    Some(cpi))

(* ------------------------------- dispute ------------------------------- *)
\* dispute_challenge without its status check
dispute_challenge_checks_no_status(acc, ch, disputer, t) ==
    IF ~acc.admin_state.is_active THEN "AdminInactive"
    ELSE IF ~(t >= ch.dispute_timer) THEN "ChallengeNotExpired"
    ELSE IF disputer # ch.creator /\ ch.challenger = None THEN "Panic"
    ELSE IF ~(disputer = ch.creator \/ Some(disputer) = ch.challenger)
    THEN "Unauthorized"
    ELSE "Ok"

\* dispute_challenge without its timer check
dispute_challenge_checks_no_timer(acc, ch, disputer, t) ==
    IF ~acc.admin_state.is_active THEN "AdminInactive"
    ELSE IF ~(ch.status = "InProgress") THEN "NotInProgress"
    ELSE IF disputer # ch.creator /\ ch.challenger = None THEN "Panic"
    ELSE IF ~(disputer = ch.creator \/ Some(disputer) = ch.challenger)
    THEN "Unauthorized"
    ELSE "Ok"

\* the require! checks of dispute_challenge, in order
dispute_challenge_checks(acc, ch, disputer, t) ==
    IF ~acc.admin_state.is_active THEN "AdminInactive"
    ELSE IF ~(ch.status = "InProgress") THEN "NotInProgress"
    ELSE IF ~(t >= ch.dispute_timer) THEN "ChallengeNotExpired"
    ELSE IF disputer # ch.creator /\ ch.challenger = None THEN "Panic"
    ELSE IF ~(disputer = ch.creator \/ Some(disputer) = ch.challenger)
    THEN "Unauthorized"
    ELSE "Ok"

\* pub fn dispute_challenge(ctx: Context<DisputeChallenge>)
dispute_challenge(acc, c, disputer, t) ==
    LET ch == acc.challenge[c]
        checks == dispute_challenge_checks(acc, ch, disputer, t)
    IN  IF ~ch.exists
        THEN Return("AccountNotInitialized", acc, None, None)
        ELSE IF checks # "Ok"
        THEN Return(checks, acc, None, None)
        ELSE Return("Ok",
                    [acc EXCEPT !.challenge[c].status = "Disputed",
                                !.challenge[c].last_updated = t],
                    Some([name |-> "ChallengeDisputed", challenge |-> ChallengeKey(c),
                          disputer |-> disputer, timestamp |-> t]),
                    None)

(* ------------------------- the state machine --------------------------- *)
\* pub fn initialize(ctx: Context<Initialize>, admin: Pubkey), run once at
\* deployment with the first wallet as admin; every wallet holds a token
\* account, the last one with the minimum fee only
Init ==
    /\ now = 0
    /\ admin_state = [exists |-> TRUE, admin |-> KeyOf(1), is_active |-> TRUE,
                      created_at |-> 0, last_updated |-> 0]
    /\ challenge = [c \in ChallengeIds |-> NoAccount]
    /\ token_accounts =
          [a \in TokenAddresses |->
              IF a \in UserTokenAddresses
              THEN [exists |-> TRUE, owner |-> KeyOf(a[2]),
                    amount |-> IF a[2] = NumUsers THEN MIN_ENTRY_FEE_USDFG
                               ELSE InitialBalance]
              ELSE NoAccount]
    /\ result = NoInstruction

\* the state after initialize and after a create_challenge at another address
\* with the largest fee, of which the model keeps the vault: it holds the stake
\* under the program's escrow wallet
InitOtherChallenge ==
    /\ now = 0
    /\ admin_state = [exists |-> TRUE, admin |-> KeyOf(1), is_active |-> TRUE,
                      created_at |-> 0, last_updated |-> 0]
    /\ challenge = [c \in ChallengeIds |-> NoAccount]
    /\ token_accounts =
          [a \in TokenAddresses |->
              IF a \in UserTokenAddresses
              THEN [exists |-> TRUE, owner |-> KeyOf(a[2]),
                    amount |-> IF a[2] = NumUsers THEN MIN_ENTRY_FEE_USDFG
                               ELSE InitialBalance]
              ELSE IF a = OtherChallengeVault
              THEN [exists |-> TRUE, owner |-> EscrowWalletPda,
                    amount |-> MAX_ENTRY_FEE_USDFG]
              ELSE NoAccount]
    /\ result = NoInstruction

\* the accounts a creator names as escrow_wallet, on which CreateChallenge puts
\* no constraint: the two program-derived addresses, or a key of its own
EscrowWalletChoices(c, creator) == {EscrowWalletPda, EscrowTokenAddress(c), creator}

\* the wallets an admin hands the role to
AdminCandidates == {KeyOf(1), KeyOf(2)}

Initialize ==
    \E payer \in UserKeys, admin \in AdminCandidates :
        Execute("initialize", 0, payer, <<admin>>, initialize(Accounts, admin, now))

UpdateAdmin ==
    \E signer \in UserKeys, new_admin \in AdminCandidates :
        Execute("update_admin", 0, signer, <<new_admin>>,
                update_admin(Accounts, signer, new_admin, now))

RevokeAdmin ==
    \E signer \in UserKeys :
        Execute("revoke_admin", 0, signer, <<>>, revoke_admin(Accounts, signer, now))

CreateChallenge ==
    \E c \in ChallengeIds, creator \in UserKeys, amount \in Amounts :
        \E escrow_wallet \in EscrowWalletChoices(c, creator) :
            Execute("create_challenge", c, creator, <<escrow_wallet, amount>>,
                    create_challenge(Accounts, c, creator, escrow_wallet, amount, now))

AcceptChallenge ==
    \E c \in ChallengeIds, challenger \in UserKeys :
        Execute("accept_challenge", c, challenger, <<>>,
                accept_challenge(Accounts, c, challenger, now))

ResolveChallenge ==
    \E c \in ChallengeIds, payer \in UserKeys, winner \in UserKeys :
        \E winner_token_account \in UserTokenAddresses :
            Execute("resolve_challenge", c, payer, <<winner, winner_token_account>>,
                    resolve_challenge(Accounts, c, payer, winner,
                                      winner_token_account, now))

CancelChallenge ==
    \E c \in ChallengeIds, creator \in UserKeys, escrow \in TokenAddresses :
        Execute("cancel_challenge", c, creator, <<escrow>>,
                cancel_challenge(Accounts, c, creator, escrow, now))

ClaimRefund ==
    \E c \in ChallengeIds, creator \in UserKeys, escrow \in TokenAddresses :
        Execute("claim_refund", c, creator, <<escrow>>,
                claim_refund(Accounts, c, creator, escrow, now))

DisputeChallenge ==
    \E c \in ChallengeIds, disputer \in UserKeys :
        Execute("dispute_challenge", c, disputer, <<>>,
                dispute_challenge(Accounts, c, disputer, now))

\* a wallet sends the token program a Transfer out of a vault, signed with its
\* own key and naming itself as authority, for the vault's whole balance
AuthorityTransfer ==
    \E c \in ChallengeIds, signer \in UserKeys :
        LET vault == EscrowTokenAddress(c)
            cpi == Cpi(vault, TokenAccountOf(signer), signer,
                       token_accounts[vault].amount, {})
        IN  /\ result = NoInstruction
            /\ token_accounts[vault].exists
            /\ token_accounts[vault].amount > 0
            /\ token_transfer_err(token_accounts, cpi, {signer}) = "Ok"
            /\ token_accounts' = token_transfer(token_accounts, cpi)
            /\ result' = NoInstruction
            /\ UNCHANGED <<admin_state, challenge, now>>

\* the clock moves on
Tick ==
    /\ result = NoInstruction
    /\ \E t \in ClockValues : t > now /\ now' = t
    /\ result' = NoInstruction
    /\ UNCHANGED <<admin_state, challenge, token_accounts>>

\* the outcome of the last transaction has been reported
Confirm ==
    /\ result # NoInstruction
    /\ result' = NoInstruction
    /\ UNCHANGED <<admin_state, challenge, token_accounts, now>>

Next ==
    \/ Initialize
    \/ UpdateAdmin
    \/ RevokeAdmin
    \/ CreateChallenge
    \/ AcceptChallenge
    \/ ResolveChallenge
    \/ CancelChallenge
    \/ ClaimRefund
    \/ DisputeChallenge
    \/ AuthorityTransfer
    \/ Tick
    \/ Confirm

Spec == Init /\ [][Next]_vars

\* the program with a second challenge's vault in place
SpecOtherChallenge == InitOtherChallenge /\ [][Next]_vars

(* ------------------------- reading the state --------------------------- *)
\* the escrow token account of challenge c
Vault(c) == token_accounts[EscrowTokenAddress(c)]
\* the challenges that have been created
Created == {c \in ChallengeIds : challenge[c].exists}
\* the instruction of the last step, when it ran on challenge c
Ran(op, c) == result.op = op /\ result.challenge = c
ChallengeOps ==
    {"accept_challenge", "resolve_challenge", "cancel_challenge", "claim_refund",
     "dispute_challenge"}

(* -------------------------------- C1 ----------------------------------- *)
\* C1: in every state between instructions, the vault of every challenge holds
\* entry_fee while the status is Open, entry_fee * 2 while it is InProgress or
\* Disputed, and 0 once it is Completed or Cancelled.
C1_VaultBalanceByStatus ==
    \A c \in Created :
        LET ch == challenge[c]
        IN  /\ ch.status = "Open" => Vault(c).amount = ch.entry_fee
            /\ ch.status \in {"InProgress", "Disputed"} =>
                   Vault(c).amount = ch.entry_fee * 2
            /\ ch.status \in {"Completed", "Cancelled"} => Vault(c).amount = 0

(* -------------------------------- C2 ----------------------------------- *)
\* the edges of the status machine, each with the instruction that takes it
StatusEdges ==
    {<<"Open", "InProgress", "accept_challenge">>,
     <<"Open", "Cancelled", "cancel_challenge">>,
     <<"Open", "Cancelled", "claim_refund">>,
     <<"InProgress", "Completed", "resolve_challenge">>,
     <<"InProgress", "Disputed", "dispute_challenge">>}
\* how far a status is from Open
StatusRank(st) ==
    IF st = "Open" THEN 0 ELSE IF st = "InProgress" THEN 1 ELSE 2

\* C2: a step changes the status of a challenge only along Open -> InProgress
\* (accept), Open -> Cancelled (cancel or claim_refund), InProgress -> Completed
\* (resolve) and InProgress -> Disputed (dispute), each by a successful run of
\* that instruction on that challenge; a created challenge stays created and
\* its status never moves back.
C2_StatusEdges ==
    [][\A c \in Created :
          /\ challenge'[c].exists
          /\ StatusRank(challenge'[c].status) >= StatusRank(challenge[c].status)
          /\ challenge'[c].status # challenge[c].status =>
                /\ <<challenge[c].status, challenge'[c].status, result'.op>>
                       \in StatusEdges
                /\ result'.challenge = c
                /\ result'.err = "Ok"]_vars

\* a challenge has gone Open -> InProgress -> Disputed
C2_Witness ==
    \E c \in Created : challenge[c].status = "Disputed" /\ Ran("dispute_challenge", c)

(* -------------------------------- C3 ----------------------------------- *)
TerminalStatuses == {"Completed", "Cancelled", "Disputed"}

\* C3 as stated: once the status of a challenge is Completed, Cancelled or
\* Disputed, every later accept, resolve, cancel, claim_refund and dispute on it
\* fails, a later resolve with NotInProgress, and the challenge record and its
\* vault never change again.
C3_TerminalAsStated ==
    [][\A c \in Created :
          challenge[c].status \in TerminalStatuses =>
              /\ challenge'[c] = challenge[c]
              /\ Vault(c)' = Vault(c)
              /\ result'.op \in ChallengeOps /\ result'.challenge = c =>
                     result'.err # "Ok"
              /\ result'.op = "resolve_challenge" /\ result'.challenge = c =>
                     result'.err = "NotInProgress"]_vars

\* C3, amended: as above, but the later resolve fails with NotInProgress while
\* the admin is active (with the admin revoked it fails with AdminInactive,
\* which resolve_challenge checks first).
C3_TerminalStays ==
    [][\A c \in Created :
          challenge[c].status \in TerminalStatuses =>
              /\ challenge'[c] = challenge[c]
              /\ Vault(c)' = Vault(c)
              /\ result'.op \in ChallengeOps /\ result'.challenge = c =>
                     result'.err # "Ok"
              /\ result'.op = "resolve_challenge" /\ result'.challenge = c =>
                     result'.err = IF admin_state.is_active THEN "NotInProgress"
                                   ELSE "AdminInactive"]_vars

\* a resolve on a Disputed challenge has failed with NotInProgress
C3_Witness ==
    \E c \in Created :
        /\ challenge[c].status = "Disputed"
        /\ Ran("resolve_challenge", c)
        /\ result.err = "NotInProgress"

(* -------------------------------- C4 ----------------------------------- *)
\* C4: with the admin active, resolve_challenge(w) succeeds if and only if the
\* status of the challenge is InProgress, w is the creator or the challenger
\* and now < dispute_timer; on success the status becomes Completed.
C4_ResolveSucceedsIff ==
    [][result'.op = "resolve_challenge" /\ admin_state.is_active =>
          LET c == result'.challenge
              w == result'.arg[1]
          IN  /\ (result'.err = "Ok") <=>
                     /\ c \in Created
                     /\ challenge[c].status = "InProgress"
                     /\ (w = challenge[c].creator \/ Some(w) = challenge[c].challenger)
                     /\ now < challenge[c].dispute_timer
              /\ result'.err = "Ok" => challenge'[c].status = "Completed"]_vars

C6_VaultAuthorityProgramDerived ==
    \A c \in ChallengeIds :
        Vault(c).exists => Vault(c).owner \in {EscrowWalletPda, EscrowTokenAddress(c)}

(* -------------------------------- C7 ----------------------------------- *)
\* C7: every transfer out of a vault that resolve_challenge, cancel_challenge or
\* claim_refund asks for names the vault's authority, carries signer seeds that
\* derive that authority, and is accepted.
C7_PayoutAuthorized ==
    result.op \in {"resolve_challenge", "cancel_challenge", "claim_refund"} =>
        \A payout \in result.cpi :
            /\ payout.authority = token_accounts[payout.from].owner
            /\ payout.authority \in CpiSigners({}, payout.signer_seeds)
            /\ result.err = "Ok"

C9_ClaimRefundSucceedsIff ==
    [][/\ result'.op = "claim_refund"
       /\ result'.challenge \in Created
       /\ result'.signer = challenge[result'.challenge].creator
       /\ result'.arg[1] = EscrowTokenAddress(result'.challenge)
       /\ Vault(result'.challenge).owner = EscrowWalletPda
       =>
          LET c == result'.challenge
              mine == TokenAccountOf(result'.signer)
          IN  /\ (result'.err = "Ok") <=>
                     /\ challenge[c].status = "Open"
                     /\ challenge[c].challenger = None
                     /\ now >= challenge[c].dispute_timer
              /\ result'.err = "Ok" =>
                     /\ token_accounts'[mine].amount =
                            token_accounts[mine].amount + challenge[c].entry_fee
                     /\ token_accounts'[EscrowTokenAddress(c)].amount = 0
                     /\ challenge'[c].status = "Cancelled"]_vars

(* -------------------------------- C10 ---------------------------------- *)
\* C10: accept_challenge succeeds only when the admin is active, the status is
\* Open, the caller is not the creator, the caller holds at least entry_fee and
\* now < dispute_timer; after it has succeeded challenger is the caller, the
\* status is InProgress, the caller holds entry_fee less and the vault holds
\* entry_fee * 2.
C10_AcceptChallenge ==
    [][result'.op = "accept_challenge" /\ result'.err = "Ok" =>
          LET c == result'.challenge
              caller == result'.signer
              mine == TokenAccountOf(result'.signer)
          IN  /\ c \in Created
              /\ admin_state.is_active
              /\ challenge[c].status = "Open"
              /\ caller # challenge[c].creator
              /\ token_accounts[mine].amount >= challenge[c].entry_fee
              /\ now < challenge[c].dispute_timer
              /\ challenge'[c].challenger = Some(caller)
              /\ challenge'[c].status = "InProgress"
              /\ token_accounts'[mine].amount =
                     token_accounts[mine].amount - challenge[c].entry_fee
              /\ token_accounts'[EscrowTokenAddress(c)].amount = challenge[c].entry_fee * 2]_vars

\* an accept has succeeded
C10_Witness ==
    /\ result.op = "accept_challenge"
    /\ result.err = "Ok"
    /\ challenge[result.challenge].status = "InProgress"

(* -------------------------------- C11 ---------------------------------- *)
\* C11 as stated: accept_challenge submitted by the creator of the challenge
\* always fails, and the error is SelfChallenge whatever else holds (admin
\* active or revoked, any status, any balance, any time).
C11_SelfChallengeAsStated ==
    [][/\ result'.op = "accept_challenge"
       /\ result'.challenge \in Created
       /\ result'.signer = challenge[result'.challenge].creator
       => result'.err = "SelfChallenge"]_vars

\* C11, amended: accept_challenge submitted by the creator of the challenge
\* always fails; the error is that of the first check that fails, in the order
\* vault authority (account constraint), admin active (AdminInactive), status
\* Open (NotOpen), caller is not the creator (SelfChallenge), so it is
\* SelfChallenge exactly when the vault is under the program's escrow wallet,
\* the admin is active and the status is Open.
C11_CreatorAcceptFails ==
    [][/\ result'.op = "accept_challenge"
       /\ result'.challenge \in Created
       /\ result'.signer = challenge[result'.challenge].creator
       =>
          LET c == result'.challenge
          IN  /\ result'.err # "Ok"
              /\ result'.err =
                     IF Vault(c).owner # EscrowWalletPda THEN "ConstraintTokenOwner"
                     ELSE IF ~admin_state.is_active THEN "AdminInactive"
                     ELSE IF challenge[c].status # "Open" THEN "NotOpen"
                     ELSE "SelfChallenge"]_vars

\* the creator has tried to accept its own Open challenge and got SelfChallenge
C11_Witness ==
    /\ result.op = "accept_challenge"
    /\ result.challenge \in Created
    /\ result.signer = challenge[result.challenge].creator
    /\ challenge[result.challenge].status = "Open"
    /\ result.err = "SelfChallenge"


(* -------------------------------- C12 ---------------------------------- *)
\* what a successful create_challenge(fee) at address c leaves
CreatedWith(c, fee) ==
    /\ result'.err = "Ok"
    /\ token_accounts'[EscrowTokenAddress(c)].amount = fee
    /\ challenge'[c].exists
    /\ challenge'[c].entry_fee = fee
    /\ challenge'[c].status = "Open"
    /\ challenge'[c].challenger = None
    /\ ~challenge'[c].processing
\* what a create_challenge at address c that failed with err leaves
CreateFailedWith(c, err) ==
    /\ result'.err = err
    /\ \A a \in TokenAddresses :
           token_accounts'[a].exists => /\ token_accounts[a].exists
                                        /\ token_accounts'[a].amount = token_accounts[a].amount
    /\ ~challenge'[c].exists

\* C12 as stated: create_challenge of a new challenge with entry_fee in
\* [1, 1000] succeeds and leaves the vault holding exactly entry_fee, status
\* Open, challenger None and processing false; with entry_fee = 0 it fails with
\* EntryFeeTooLow, with entry_fee > 1000 with EntryFeeTooHigh, and then no
\* balance changes and no challenge record exists.
C12_CreateAsStated ==
    [][result'.op = "create_challenge" /\ result'.challenge \notin Created =>
          LET c == result'.challenge
              fee == result'.arg[2]
          IN  /\ fee \in MIN_ENTRY_FEE_USDFG..MAX_ENTRY_FEE_USDFG => CreatedWith(c, fee)
              /\ fee < MIN_ENTRY_FEE_USDFG => CreateFailedWith(c, "EntryFeeTooLow")
              /\ fee > MAX_ENTRY_FEE_USDFG => CreateFailedWith(c, "EntryFeeTooHigh")]_vars

\* C12, amended: as above, but create_challenge with entry_fee in [1, 1000]
\* succeeds when the creator's token account holds at least entry_fee; when it
\* holds less the token transfer is refused, no balance changes and no
\* challenge record exists.
C12_CreateChallenge ==
    [][result'.op = "create_challenge" /\ result'.challenge \notin Created =>
          LET c == result'.challenge
              fee == result'.arg[2]
              held == token_accounts[TokenAccountOf(result'.signer)].amount
          IN  /\ fee \in MIN_ENTRY_FEE_USDFG..MAX_ENTRY_FEE_USDFG /\ held >= fee =>
                     CreatedWith(c, fee)
              /\ fee \in MIN_ENTRY_FEE_USDFG..MAX_ENTRY_FEE_USDFG /\ held < fee =>
                     CreateFailedWith(c, "TokenInsufficientFunds")
              /\ fee < MIN_ENTRY_FEE_USDFG => CreateFailedWith(c, "EntryFeeTooLow")
              /\ fee > MAX_ENTRY_FEE_USDFG => CreateFailedWith(c, "EntryFeeTooHigh")]_vars

\* a create_challenge with the largest fee has succeeded
C12_Witness ==
    /\ result.op = "create_challenge"
    /\ result.err = "Ok"
    /\ result.arg[2] = MAX_ENTRY_FEE_USDFG
    /\ Vault(result.challenge).amount = MAX_ENTRY_FEE_USDFG


C14_DisputeChallenge ==
    [][result'.op = "dispute_challenge" /\ result'.err = "Ok" =>
          LET c == result'.challenge
          IN  /\ c \in Created
              /\ admin_state.is_active
              /\ challenge[c].status = "InProgress"
              /\ now >= challenge[c].dispute_timer
              /\ \/ result'.signer = challenge[c].creator
                 \/ Some(result'.signer) = challenge[c].challenger
              /\ challenge'[c] = [challenge[c] EXCEPT !.status = "Disputed",
                                                      !.last_updated = now]
              /\ \A d \in ChallengeIds \ {c} : challenge'[d] = challenge[d]
              /\ token_accounts' = token_accounts
              /\ admin_state' = admin_state]_vars

\* a dispute by the challenger has succeeded and the vault still holds both
\* stakes
C14_Witness ==
    /\ result.op = "dispute_challenge"
    /\ result.err = "Ok"
    /\ Some(result.signer) = challenge[result.challenge].challenger
    /\ Vault(result.challenge).amount = challenge[result.challenge].entry_fee * 2


(* -------------------------------- C15 ---------------------------------- *)
\* winner is set exactly with status Completed, and to the creator or the
\* challenger
WinnerWithCompleted(ch) ==
    /\ ch.winner # None <=> ch.status = "Completed"
    /\ \A w \in ch.winner : w = ch.creator \/ Some(w) = ch.challenger

\* C15: in every reachable state the winner of a challenge is set if and only
\* if its status is Completed, and when set it is the creator or the
\* challenger; the same holds of the record a resolve_challenge run between two
\* instructions has written when it asks the token program for the payout.
C15_WinnerIffCompleted ==
    \A c \in Created :
        /\ WinnerWithCompleted(challenge[c])
        /\ result = NoInstruction =>
           \A payer \in UserKeys, winner \in UserKeys, account \in UserTokenAddresses :
               LET out == resolve_challenge(Accounts, c, payer, winner, account, now)
               IN  /\ WinnerWithCompleted(out.acc.challenge[c])
                   /\ out.cpi # None => out.acc.challenge[c].winner = Some(winner)

\* a resolve has named the challenger as winner and reached the payout, which
\* was refused: the challenge is still InProgress and has no winner
C15_Witness ==
    /\ result.op = "resolve_challenge"
    /\ result.cpi # None
    /\ Some(result.arg[1]) = challenge[result.challenge].challenger
    /\ challenge[result.challenge].status = "InProgress"
    /\ challenge[result.challenge].winner = None


(* -------------------------------- C16 ---------------------------------- *)
\* the instructions that require an active admin
AdminGatedOps ==
    {"update_admin", "revoke_admin", "accept_challenge", "resolve_challenge",
     "cancel_challenge", "dispute_challenge"}

\* C16: update_admin and revoke_admin succeed only when the caller is the admin
\* recorded in AdminState and is_active is true; a caller that is not the
\* recorded admin gets Unauthorized, the recorded admin of a revoked AdminState
\* gets AdminInactive.  Once is_active is false it stays false (initialize
\* cannot run again), and no update_admin, revoke_admin, accept, resolve,
\* cancel or dispute succeeds.
C16_AdminGate ==
    [][/\ result'.op \in {"update_admin", "revoke_admin"} =>
              /\ result'.err = "Ok" =>
                     result'.signer = admin_state.admin /\ admin_state.is_active
              /\ result'.signer # admin_state.admin => result'.err = "Unauthorized"
              /\ result'.signer = admin_state.admin /\ ~admin_state.is_active =>
                     result'.err = "AdminInactive"
       /\ result'.op = "revoke_admin" /\ result'.err = "Ok" => ~admin_state'.is_active
       /\ ~admin_state.is_active =>
              /\ ~admin_state'.is_active
              /\ result'.op \in AdminGatedOps \cup {"initialize"} =>
                     result'.err # "Ok"]_vars

\* the admin has revoked itself and then been refused an update_admin
C16_Witness ==
    /\ result.op = "update_admin"
    /\ result.signer = admin_state.admin
    /\ ~admin_state.is_active
    /\ result.err = "AdminInactive"


(* -------------------------------- C17 ---------------------------------- *)
\* what resolve_challenge, cancel_challenge and claim_refund on challenge c
\* return when run on the accounts acc at time t, over every caller and every
\* account a caller names
GuardedRuns(acc, c, t) ==
    {resolve_challenge(acc, c, payer, winner, account, t) :
        payer \in UserKeys, winner \in UserKeys, account \in UserTokenAddresses}
    \cup {cancel_challenge(acc, c, creator, escrow, t) :
        creator \in UserKeys, escrow \in TokenAddresses}
    \cup {claim_refund(acc, c, creator, escrow, t) :
        creator \in UserKeys, escrow \in TokenAddresses}

\* the errors of the account constraints, raised before a handler runs
ConstraintErrors == {"AccountNotInitialized", "ConstraintTokenOwner", "ConstraintRaw"}

\* C17: processing is false in every committed state.  Run from a state
\* between two instructions, a resolve, cancel or claim_refund that asks for its
\* token transfer has set processing before, and one that returns Ok has
\* cleared it, after the transfer and the changes to the record.  Run on a
\* challenge whose processing is already true, each of the three stops with
\* ReentrancyDetected (once its account constraints have passed), having
\* changed nothing and asked for no transfer.
C17_ProcessingFlag ==
    \A c \in Created :
        LET locked == [Accounts EXCEPT !.challenge[c].processing = TRUE]
        IN  /\ ~challenge[c].processing
            /\ result = NoInstruction =>
                   /\ \A out \in GuardedRuns(Accounts, c, now) :
                          /\ out.cpi # None /\ out.err # "Ok" =>
                                 out.acc.challenge[c].processing
                          /\ out.err = "Ok" =>
                                 out.cpi # None /\ ~out.acc.challenge[c].processing
                   /\ \A out \in GuardedRuns(locked, c, now) :
                          /\ out.err \in ConstraintErrors \cup {"ReentrancyDetected"}
                          /\ out.acc = locked
                          /\ out.cpi = None
                          /\ out.event = None
                   /\ Vault(c).owner = EscrowWalletPda =>
                          \E out \in GuardedRuns(locked, c, now) :
                              out.err = "ReentrancyDetected"

\* a cancel_challenge has set processing, asked for its refund and been
\* refused: processing is false again
C17_Witness ==
    /\ result.op = "cancel_challenge"
    /\ result.cpi # None
    /\ result.err # "Ok"
    /\ ~challenge[result.challenge].processing


(* -------------------------------- C18 ---------------------------------- *)
\* C18: every challenge has dispute_timer = created_at + 900 and an entry_fee
\* in [1, 1000], from the step that creates it on, and no later step changes
\* its dispute_timer, created_at, entry_fee or creator.
C18_FixedAtCreation ==
    [][\A c \in ChallengeIds :
          /\ challenge'[c].exists =>
                /\ challenge'[c].dispute_timer = challenge'[c].created_at + DISPUTE_WINDOW
                /\ challenge'[c].entry_fee \in MIN_ENTRY_FEE_USDFG..MAX_ENTRY_FEE_USDFG
          /\ challenge[c].exists =>
                /\ challenge'[c].exists
                /\ challenge'[c].dispute_timer = challenge[c].dispute_timer
                /\ challenge'[c].created_at = challenge[c].created_at
                /\ challenge'[c].entry_fee = challenge[c].entry_fee
                /\ challenge'[c].creator = challenge[c].creator]_vars

\* a challenge created after time 0 has been accepted at a later time
C18_Witness ==
    /\ result.op = "accept_challenge"
    /\ result.err = "Ok"
    /\ challenge[result.challenge].created_at > 0
    /\ now > challenge[result.challenge].created_at
    /\ challenge[result.challenge].dispute_timer =
           challenge[result.challenge].created_at + DISPUTE_WINDOW


(* -------------------------------- C19 ---------------------------------- *)
\* C19: the outcome of resolve_challenge does not depend on who submits it:
\* run from the same state with the same challenge, winner and winner token
\* account, it returns the same result, writes the same accounts, emits the
\* same event and asks for the same transfer for every submitter, the recorded
\* admin or not; its admin gate is is_active alone, so it returns AdminInactive
\* exactly when the AdminState is revoked (the account constraints and the
\* reentrancy guard having passed).
C19_ResolveAnySubmitter ==
    result = NoInstruction =>
        \A c \in Created, winner \in UserKeys, account \in UserTokenAddresses :
            \A p1 \in UserKeys, p2 \in UserKeys :
                LET out1 == resolve_challenge(Accounts, c, p1, winner, account, now)
                    out2 == resolve_challenge(Accounts, c, p2, winner, account, now)
                IN  /\ out1 = out2
                    /\ EscrowAccountsErr(Accounts, c) = "Ok" =>
                           (out1.err = "AdminInactive" <=> ~admin_state.is_active)

\* a wallet that is neither the admin nor a participant has submitted a resolve
\* that passed every check of the handler and reached the payout
C19_Witness ==
    /\ result.op = "resolve_challenge"
    /\ result.cpi # None
    /\ result.signer # admin_state.admin
    /\ result.signer # challenge[result.challenge].creator
    /\ Some(result.signer) # challenge[result.challenge].challenger


(* -------------------------------- C20 ---------------------------------- *)
\* the tokens held by the token accounts at the addresses in S
RECURSIVE TokensIn(_, _)
TokensIn(tok, S) ==
    IF S = {} THEN 0
    ELSE LET a == CHOOSE x \in S : TRUE
         IN  (IF tok[a].exists THEN tok[a].amount ELSE 0) + TokensIn(tok, S \ {a})

\* the balance of the token account at address a, 0 while it does not exist
Balance(tok, a) == IF tok[a].exists THEN tok[a].amount ELSE 0

\* what create_challenge and accept_challenge have paid into the vault of
\* challenge ch: entry_fee by create, and entry_fee by accept once it has one
Deposited(ch) ==
    IF ~ch.exists THEN 0
    ELSE IF ch.challenger = None THEN ch.entry_fee
    ELSE ch.entry_fee * 2

\* C20: every step leaves the sum of all wallet and vault balances as it was.
\* A vault's balance grows only by a successful create_challenge or
\* accept_challenge on its challenge, by entry_fee, and it is never below 0 nor
\* above what create and accept have deposited: what has left a vault, the
\* deposits less the balance, is at most what was deposited.
C20_TokensConserved ==
    [][/\ TokensIn(token_accounts', TokenAddresses) =
              TokensIn(token_accounts, TokenAddresses)
       /\ \A c \in ChallengeIds :
              LET vault == EscrowTokenAddress(c)
                  before == Balance(token_accounts, vault)
                  after == Balance(token_accounts', vault)
              IN  /\ after >= 0
                  /\ after <= Deposited(challenge'[c])
                  /\ after > before =>
                        /\ result'.op \in {"create_challenge", "accept_challenge"}
                        /\ result'.challenge = c
                        /\ result'.err = "Ok"
                        /\ after = before + challenge'[c].entry_fee]_vars

\* the largest stake has been deposited and has left its vault again
C20_Witness ==
    \E c \in Created :
        /\ Deposited(challenge[c]) = MAX_ENTRY_FEE_USDFG
        /\ Vault(c).amount = 0


(* -------------------------------- C21 ---------------------------------- *)
\* challenge c has both stakes in its vault and its dispute timer has run out
Expired(c) ==
    /\ challenge[c].status \in {"InProgress", "Disputed"}
    /\ now >= challenge[c].dispute_timer

\* C21: once a challenge is InProgress at a time now >= dispute_timer, it stays
\* InProgress or Disputed with the timer run out; a resolve_challenge on it
\* fails, with ChallengeExpired when the admin is active, the status is
\* InProgress and the winner named is a participant; the only instruction on it
\* that succeeds is a dispute_challenge while it is InProgress, and none
\* succeeds once it is Disputed; its vault holds entry_fee * 2 and keeps
\* holding it, so that nothing of the stakes goes back to a participant.
C21_StakesLocked ==
    [][\A c \in Created :
          Expired(c) =>
              LET ch == challenge[c]
                  on_c == result'.op \in ChallengeOps /\ result'.challenge = c
              IN  /\ challenge'[c].status \in {"InProgress", "Disputed"}
                  /\ now' >= challenge'[c].dispute_timer
                  /\ Vault(c).amount = ch.entry_fee * 2
                  /\ Vault(c)' = Vault(c)
                  /\ on_c /\ result'.err = "Ok" =>
                         result'.op = "dispute_challenge" /\ ch.status = "InProgress"
                  /\ /\ on_c
                     /\ result'.op = "resolve_challenge"
                     /\ admin_state.is_active
                     /\ ch.status = "InProgress"
                     /\ (result'.arg[1] = ch.creator \/ Some(result'.arg[1]) = ch.challenger)
                     => result'.err = "ChallengeExpired"]_vars

\* a resolve_challenge for a participant has been refused with ChallengeExpired
\* and the vault still holds both stakes
C21_Witness ==
    /\ result.op = "resolve_challenge"
    /\ result.err = "ChallengeExpired"
    /\ Expired(result.challenge)
    /\ Vault(result.challenge).amount = challenge[result.challenge].entry_fee * 2


(* -------------------------------- C22 ---------------------------------- *)
\* the instructions that pay out of a vault
PayoutOps == {"resolve_challenge", "cancel_challenge", "claim_refund"}

C23_ChallengerIffAccepted ==
    /\ \A c \in Created :
           challenge[c].challenger = None <=>
               challenge[c].status \in {"Open", "Cancelled"}
    /\ result.err # "Panic"
    /\ result.err # "AlreadyAccepted"

\* a resolve_challenge on an InProgress challenge has compared a winner that is
\* not the creator with the challenger, and refused it with InvalidWinner
C23_Witness ==
    /\ result.op = "resolve_challenge"
    /\ result.err = "InvalidWinner"
    /\ challenge[result.challenge].status = "InProgress"
    /\ challenge[result.challenge].challenger # None
    /\ result.arg[1] # challenge[result.challenge].creator


====
